---- MODULE Spec2Model ----
(***************************************************************************)
(* The two orchestration scripts of GuidedHybSensUIR, train.py and         *)
(* test.py, as a state machine.  One run launches opt.nproc accelerator    *)
(* processes that all execute the same script; every process has its own   *)
(* local variables (the Python locals of train() / test()) and all of them *)
(* share the file system (save directory, checkpoint files, log file,      *)
(* result directory, images) and the collectives of the accelerator        *)
(* (gather, the gradient all-reduce of backward).                          *)
(*                                                                         *)
(* Tensors are abstracted: a batch (res, tar) is identified by a quality   *)
(* level, the value the metric functions return on it.  Model parameters   *)
(* are identified by where they come from and how many optimizer steps     *)
(* have been applied to them.  Averages are exact rationals [num, den].    *)
(***************************************************************************)
EXTENDS Integers, Sequences, FiniteSets

\* ---------------------------------------------------------------- bounds
MaxProcs == 2
MaxEpochs == 2
MaxSamples == 2
MaxTrainBatches == 2
MaxQuality == 1
\* processes times epochs of a run
MaxWork == 4

VARIABLES
  opt,        \* the configuration of the run (config.yml and the launcher)
  pc,         \* pc[p]: the statement process p executes next
  err,        \* err[p]: the exception that ended process p, "none" otherwise
  loc,        \* loc[p]: the local variables of train() / test() in process p
  calls,      \* calls[p][c]: how often process p has completed framework call c
  hist,       \* hist[p]: what process p has passed to save_checkpoint,
              \*          accelerator.log and the log file, in order
  coll,       \* coll[p]: how many collectives process p has entered
  gathered,   \* the batch the last completed accelerator.gather returned
  saveDir,    \* the processes that have created TRAINING.SAVE_DIR
  ckpt,       \* checkpoint files: key -> <<>> (being written) or <<state_dict>>
  logFile,    \* the lines of the log file
  resultDir,  \* whether TESTING.RESULT_DIR exists
  images      \* the image files in TESTING.RESULT_DIR, by filename

vars == <<opt, pc, err, loc, calls, hist, coll, gathered, saveDir, ckpt,
          logFile, resultDir, images>>

\* --------------------------------------------------------------- helpers
Metrics == {"PSNR", "SSIM", "LPIPS", "UCIQE", "UIQM"}

\* The quality levels a batch can have: -1, 3, 7, ...
Quality == {4 * q - 1 : q \in 0..MaxQuality}

\* The quality of what the loaded weights make of test sample s: test() runs
\* fixed weights on a fixed data set.
TestQuality(s) == 4 * (s % (MaxQuality + 1)) - 1

\* peak_signal_noise_ratio, structural_similarity_index_measure,
\* criterion_lpips, batch_uciqe and batch_uiqm on a batch of quality q.
MetricValue(m, q) ==
  CASE m = "PSNR"  -> q
    [] m = "SSIM"  -> IF q > 0 THEN 1 ELSE 0
    [] m = "LPIPS" -> IF q > 0 THEN 0 ELSE 1
    [] m = "UCIQE" -> q + 1
    [] m = "UIQM"  -> 2 * q

Session == "session"
Weight == [from |-> "weight", steps |-> 0]
Fresh == [from |-> "init", steps |-> 0]

\* The processes of the run, among the process ids there can be.
ProcIds == 1..MaxProcs
Procs == 1..opt.nproc

EveryProcess(p) == TRUE

\* accelerator.is_local_main_process (one node: the process of local rank 0)
IsLocalMainProcess(p) == p = 1

\* len() of a loader over n batches after accelerator.prepare on nproc
\* processes (batches are dealt round-robin, the last round is padded).
PreparedLen(n, nproc) == (n + nproc - 1) \div nproc

\* The sample (1..n) process p gets as batch i (0-based) of the prepared
\* loader with batch size 1.
Sample(i, p, n, nproc) == ((i * nproc + (p - 1)) % n) + 1

\* The filename the dataset gives with a sample (test_data[2][0]).
FileName(s) == <<"img", s>>

\* Exact rationals.
Rat(n, d) == [num |-> n, den |-> d]
Gt(a, b) == a.num * b.den > b.num * a.den
Eq(a, b) == a.num * b.den = b.num * a.den

\* json.dumps(text) + '\n'
JsonLine(text) == [json |-> TRUE, newline |-> TRUE, text |-> text]

\* A line the log file held before the run.
OldLine == JsonLine([kind |-> "old"])

ZeroAcc == [m \in Metrics |-> 0]

\* The batches measured in the current pass: how many of each quality.
NoneSeen == [q \in Quality |-> 0]

\* The checkpoint file save_checkpoint(state, epoch, session, save_dir) writes.
CkptKey(epoch, session) == <<session, epoch>>
NoFiles == [k \in {} |-> <<>>]
WriteFile(files, k, content) ==
  [j \in DOMAIN files \cup {k} |-> IF j = k THEN content ELSE files[j]]

Append2(h, field, x) == [h EXCEPT ![field] = Append(@, x)]

CallNames == {"zero_grad", "forward", "loss", "backward", "optimizer_step",
              "scheduler_step", "eval_forward", "end_training", "save_image"}

\* ------------------------------------------------------------------ Init
Configs ==
  [script : {"train", "test"},
   nproc : 1..MaxProcs,
   NUM_EPOCHS : 0..MaxEpochs,
   VAL_AFTER_EVERY : 1..(MaxEpochs + 1),
   trainBatches : {MaxTrainBatches},
   valSamples : 0..MaxSamples]

InitLoc ==
  [epoch |-> 1, batch |-> 0, vbatch |-> 0, size |-> 0,
   acc |-> ZeroAcc, avg |-> [m \in Metrics |-> Rat(0, 1)],
   best_psnr |-> Rat(0, 1), best_epoch |-> 1,
   params |-> Fresh, grads |-> 0, mode |-> "train", res |-> 0,
   sample |-> 0, sawDir |-> FALSE, fwdParams |-> {},
   seen |-> NoneSeen, valEpochs |-> {}]

InitHist == [passes |-> <<>>, saves |-> <<>>, tracker |-> <<>>, lines |-> <<>>]

Init ==
  /\ opt \in Configs
  /\ opt.VAL_AFTER_EVERY <= opt.NUM_EPOCHS + 1
  /\ opt.nproc * opt.NUM_EPOCHS <= MaxWork
  /\ opt.script = "test" => opt.NUM_EPOCHS = 0
  /\ pc = [p \in Procs |-> "init"]
  /\ err = [p \in Procs |-> "none"]
  /\ loc = [p \in Procs |-> InitLoc]
  /\ calls = [p \in Procs |-> [c \in CallNames |-> 0]]
  /\ hist = [p \in Procs |-> InitHist]
  /\ coll = [p \in Procs |-> 0]
  /\ gathered = 0
  /\ saveDir = {}
  /\ ckpt = NoFiles
  /\ logFile = <<OldLine>>
  /\ resultDir \in BOOLEAN
  /\ opt.script = "train" => resultDir = FALSE
  /\ images = {}

\* ----------------------------------------------------------- collectives
\* Process p has entered its coll[p]-th collective; it returns from it once
\* every process of the run has entered it too.
AllArrived(p) == \A q \in Procs : coll[q] >= coll[p]
LastToArrive(p) == \A q \in Procs \ {p} : coll[q] >= coll[p] + 1

\* ---------------------------------------------------------------- train()
IsValEpochOffByOne(epoch) == (epoch + 1) % opt.VAL_AFTER_EVERY = 0

\* if epoch % opt.TRAINING.VAL_AFTER_EVERY == 0
IsValEpoch(epoch) == epoch % opt.VAL_AFTER_EVERY = 0

ImprovesOrTies(psnr, best) == ~Gt(best, psnr)

\* if psnr > best_psnr
Improves(psnr, best) == Gt(psnr, best)

StartPassKeep(L) == L

\* psnr = 0; ssim = 0; lpips = 0; uciqe = 0; uiqm = 0
StartPass(L) == [L EXCEPT !.acc = ZeroAcc]

\* "epoch: {}, PSNR: {}, ..., best PSNR: {}, best epoch: {}".format(...)
TrainLogStats(L) ==
  [kind |-> "train", epoch |-> L.epoch, PSNR |-> L.avg["PSNR"],
   SSIM |-> L.avg["SSIM"], LPIPS |-> L.avg["LPIPS"], UCIQE |-> L.avg["UCIQE"],
   UIQM |-> L.avg["UIQM"], best_psnr |-> L.best_psnr,
   best_epoch |-> L.best_epoch]

At(p, label) == p \in Procs /\ pc[p] = label
Goto(p, label) == pc' = [pc EXCEPT ![p] = label]
Count(p, c) == calls' = [calls EXCEPT ![p][c] = @ + 1]
SetLoc(p, L) == loc' = [loc EXCEPT ![p] = L]

\* Config('config.yml'), seed_everything, Accelerator(...)
TrainInit(p) ==
  /\ At(p, "init") /\ opt.script = "train"
  /\ Goto(p, "makedirs")
  /\ UNCHANGED <<opt, err, loc, calls, hist, coll, gathered, saveDir, ckpt,
                 logFile, resultDir, images>>

\* if accelerator.is_local_main_process: os.makedirs(SAVE_DIR, exist_ok=True)
MakeSaveDir(p) ==
  /\ At(p, "makedirs")
  /\ saveDir' = IF IsLocalMainProcess(p) THEN saveDir \cup {p} ELSE saveDir
  /\ Goto(p, "prepare")
  /\ UNCHANGED <<opt, err, loc, calls, hist, coll, gathered, ckpt, logFile,
                 resultDir, images>>

\* init_trackers, get_data, DataLoader, Model, AdamW, CosineAnnealingLR,
\* accelerator.prepare; best_epoch = 1; best_psnr = 0; size = len(testloader)
TrainPrepare(p) ==
  /\ At(p, "prepare") /\ opt.script = "train"
  /\ SetLoc(p, [loc[p] EXCEPT !.size = PreparedLen(opt.valSamples, opt.nproc),
                              !.best_epoch = 1, !.best_psnr = Rat(0, 1),
                              !.epoch = 1])
  /\ Goto(p, "epoch_top")
  /\ UNCHANGED <<opt, err, calls, hist, coll, gathered, saveDir, ckpt, logFile,
                 resultDir, images>>

InRangeExclusive(epoch) == epoch < opt.NUM_EPOCHS

\* epoch in range(start_epoch, opt.OPTIM.NUM_EPOCHS + 1)
InRange(epoch) == epoch <= opt.NUM_EPOCHS

\* for epoch in range(start_epoch, NUM_EPOCHS + 1): model.train()
EpochTop(p) ==
  /\ At(p, "epoch_top")
  /\ IF InRange(loc[p].epoch)
       THEN /\ SetLoc(p, [loc[p] EXCEPT !.mode = "train", !.batch = 0])
            /\ Goto(p, "fetch")
       ELSE /\ Goto(p, "end_training")
            /\ UNCHANGED loc
  /\ UNCHANGED <<opt, err, calls, hist, coll, gathered, saveDir, ckpt, logFile,
                 resultDir, images>>

\* for _, data in enumerate(tqdm(trainloader, ...))
Fetch(p) ==
  /\ At(p, "fetch")
  /\ IF loc[p].batch < opt.trainBatches
       THEN /\ SetLoc(p, [loc[p] EXCEPT !.batch = @ + 1])
            /\ Goto(p, "zero_grad")
       ELSE /\ Goto(p, "scheduler_step")
            /\ UNCHANGED loc
  /\ UNCHANGED <<opt, err, calls, hist, coll, gathered, saveDir, ckpt, logFile,
                 resultDir, images>>

\* The gradients are kept: zero_grad is not called.
ZeroGradMissing(p) ==
  /\ At(p, "zero_grad")
  /\ Count(p, "zero_grad")
  /\ Goto(p, "forward")
  /\ UNCHANGED <<opt, err, loc, hist, coll, gathered, saveDir, ckpt, logFile,
                 resultDir, images>>

\* optimizer_b.zero_grad()
ZeroGrad(p) ==
  /\ At(p, "zero_grad")
  /\ SetLoc(p, [loc[p] EXCEPT !.grads = 0])
  /\ Count(p, "zero_grad")
  /\ Goto(p, "forward")
  /\ UNCHANGED <<opt, err, hist, coll, gathered, saveDir, ckpt, logFile,
                 resultDir, images>>

\* res = model(inp)
Forward(p) ==
  /\ At(p, "forward")
  /\ Count(p, "forward")
  /\ Goto(p, "loss")
  /\ UNCHANGED <<opt, err, loc, hist, coll, gathered, saveDir, ckpt, logFile,
                 resultDir, images>>

\* loss_psnr, loss_ssim, loss_lpips, train_loss
Loss(p) ==
  /\ At(p, "loss")
  /\ Count(p, "loss")
  /\ Goto(p, "backward")
  /\ UNCHANGED <<opt, err, loc, hist, coll, gathered, saveDir, ckpt, logFile,
                 resultDir, images>>

\* accelerator.backward(train_loss): the gradients are added to .grad and
\* all-reduced across the processes
Backward(p) ==
  /\ At(p, "backward")
  /\ SetLoc(p, [loc[p] EXCEPT !.grads = @ + 1])
  /\ coll' = [coll EXCEPT ![p] = @ + 1]
  /\ Count(p, "backward")
  /\ Goto(p, "optimizer_step")
  /\ UNCHANGED <<opt, err, hist, gathered, saveDir, ckpt, logFile, resultDir,
                 images>>

\* optimizer_b.step(), once the all-reduce backward started has completed
OptimizerStep(p) ==
  /\ At(p, "optimizer_step")
  /\ AllArrived(p)
  /\ SetLoc(p, [loc[p] EXCEPT !.params.steps = @ + 1])
  /\ Count(p, "optimizer_step")
  /\ Goto(p, "fetch")
  /\ UNCHANGED <<opt, err, hist, coll, gathered, saveDir, ckpt, logFile,
                 resultDir, images>>

\* scheduler_b.step(); if epoch % VAL_AFTER_EVERY == 0: model.eval();
\* psnr = ssim = lpips = uciqe = uiqm = 0
SchedulerStep(p) ==
  /\ At(p, "scheduler_step")
  /\ Count(p, "scheduler_step")
  /\ IF IsValEpoch(loc[p].epoch)
       THEN /\ SetLoc(p, [StartPass(loc[p]) EXCEPT !.mode = "eval",
                        !.vbatch = 0, !.fwdParams = {}, !.seen = NoneSeen,
                        !.valEpochs = @ \cup {loc[p].epoch}])
            /\ Goto(p, "val_fetch")
       ELSE /\ SetLoc(p, [loc[p] EXCEPT !.epoch = @ + 1])
            /\ Goto(p, "epoch_top")
  /\ UNCHANGED <<opt, err, hist, coll, gathered, saveDir, ckpt, logFile,
                 resultDir, images>>

\* for _, data in enumerate(tqdm(testloader, ...))
ValFetch(p) ==
  /\ At(p, "val_fetch")
  /\ IF loc[p].vbatch < loc[p].size
       THEN /\ SetLoc(p, [loc[p] EXCEPT !.vbatch = @ + 1])
            /\ Goto(p, "eval_forward")
       ELSE /\ Goto(p, "average")
            /\ UNCHANGED loc
  /\ UNCHANGED <<opt, err, calls, hist, coll, gathered, saveDir, ckpt, logFile,
                 resultDir, images>>

\* The forward pass of a validation batch followed by a training step.
EvalForwardTrains(p) ==
  /\ At(p, "eval_forward")
  /\ SetLoc(p, [loc[p] EXCEPT !.fwdParams = @ \cup {loc[p].params},
                              !.params.steps = @ + 1])
  /\ Count(p, "eval_forward")
  /\ Goto(p, "gather")
  /\ UNCHANGED <<opt, err, hist, coll, gathered, saveDir, ckpt, logFile,
                 resultDir, images>>

\* with torch.no_grad(): res = model(inp)
EvalForward(p) ==
  /\ At(p, "eval_forward")
  /\ SetLoc(p, [loc[p] EXCEPT !.fwdParams = @ \cup {loc[p].params}])
  /\ Count(p, "eval_forward")
  /\ Goto(p, "gather")
  /\ UNCHANGED <<opt, err, hist, coll, gathered, saveDir, ckpt, logFile,
                 resultDir, images>>

\* res, tar = accelerator.gather((res, tar)): p enters the collective; the
\* process that completes it fixes the gathered batch for all of them
Gather(p) ==
  /\ At(p, "gather")
  /\ coll' = [coll EXCEPT ![p] = @ + 1]
  /\ IF LastToArrive(p)
       THEN \E q \in Quality : gathered' = q
       ELSE UNCHANGED gathered
  /\ Goto(p, "measure")
  /\ UNCHANGED <<opt, err, loc, calls, hist, saveDir, ckpt, logFile, resultDir,
                 images>>

\* psnr += ...; ssim += ...; lpips += ...; uciqe += ...; uiqm += ...
Accumulate(acc, res) == [m \in Metrics |-> acc[m] + MetricValue(m, res)]

\* gather returns the batch once every process has entered it; then the five
\* metrics of the gathered batch are added
Measure(p) ==
  /\ At(p, "measure")
  /\ AllArrived(p)
  /\ SetLoc(p, [loc[p] EXCEPT !.res = gathered,
                              !.acc = Accumulate(@, gathered),
                              !.seen[gathered] = @ + 1])
  /\ Goto(p, "val_fetch")
  /\ UNCHANGED <<opt, err, calls, hist, coll, gathered, saveDir, ckpt, logFile,
                 resultDir, images>>

\* psnr /= size; ...; uiqm /= size
Averaged(acc, size) == [m \in Metrics |-> Rat(acc[m], size)]

\* the five divisions, then: if psnr > best_psnr: best_psnr = psnr;
\* best_epoch = epoch.  Dividing by a size of 0 raises ZeroDivisionError.
Average(p) ==
  /\ At(p, "average")
  /\ IF loc[p].size = 0
       THEN /\ err' = [err EXCEPT ![p] = "ZeroDivisionError"]
            /\ Goto(p, "raised")
            /\ UNCHANGED <<loc, hist>>
       ELSE LET avg == Averaged(loc[p].acc, loc[p].size)
                better == Improves(avg["PSNR"], loc[p].best_psnr)
            IN /\ SetLoc(p, [loc[p] EXCEPT
                    !.avg = avg,
                    !.best_psnr = IF better THEN avg["PSNR"] ELSE @,
                    !.best_epoch = IF better THEN loc[p].epoch ELSE @])
               /\ hist' = [hist EXCEPT ![p] = Append2(@, "passes",
                    [epoch |-> loc[p].epoch, avg |-> avg,
                     seen |-> loc[p].seen, fwdParams |-> loc[p].fwdParams])]
               /\ Goto(p, IF better THEN "save_checkpoint" ELSE "log")
               /\ UNCHANGED err
  /\ UNCHANGED <<opt, calls, coll, gathered, saveDir, ckpt, logFile, resultDir,
                 images>>

\* save_checkpoint({'state_dict': model.state_dict()}, epoch, SESSION,
\* SAVE_DIR): the call, which starts writing the file ...
SaveCheckpoint(p) ==
  /\ At(p, "save_checkpoint")
  /\ hist' = [hist EXCEPT ![p] = Append2(@, "saves",
        [epoch |-> loc[p].epoch, session |-> Session,
         state_dict |-> loc[p].params])]
  /\ ckpt' = WriteFile(ckpt, CkptKey(loc[p].epoch, Session), <<>>)
  /\ Goto(p, "save_write")
  /\ UNCHANGED <<opt, err, loc, calls, coll, gathered, saveDir, logFile,
                 resultDir, images>>

\* ... and its return, when the file holds the state_dict passed
SaveWrite(p) ==
  /\ At(p, "save_write")
  /\ LET call == hist[p].saves[Len(hist[p].saves)]
     IN ckpt' = WriteFile(ckpt, CkptKey(call.epoch, call.session),
                          <<call.state_dict>>)
  /\ Goto(p, "log")
  /\ UNCHANGED <<opt, err, loc, calls, hist, coll, gathered, saveDir, logFile,
                 resultDir, images>>

\* accelerator.log({...}, step=epoch)
AcceleratorLog(p) ==
  /\ At(p, "log")
  /\ hist' = [hist EXCEPT ![p] = Append2(@, "tracker",
        [step |-> loc[p].epoch, values |-> loc[p].avg])]
  /\ Goto(p, "log_write")
  /\ UNCHANGED <<opt, err, loc, calls, coll, gathered, saveDir, ckpt, logFile,
                 resultDir, images>>

\* if accelerator.is_local_main_process: ... with open(LOG_FILE, mode='a'):
\* f.write(json.dumps(log_stats) + '\n'); then the next epoch
LogWrite(p) ==
  /\ At(p, "log_write")
  /\ IF IsLocalMainProcess(p)
       THEN LET line == JsonLine(TrainLogStats(loc[p]))
            IN /\ logFile' = Append(logFile, line)
               /\ hist' = [hist EXCEPT ![p] = Append2(@, "lines", line)]
       ELSE UNCHANGED <<logFile, hist>>
  /\ SetLoc(p, [loc[p] EXCEPT !.epoch = @ + 1])
  /\ Goto(p, "epoch_top")
  /\ UNCHANGED <<opt, err, calls, coll, gathered, saveDir, ckpt, resultDir,
                 images>>

\* accelerator.end_training()
EndTraining(p) ==
  /\ At(p, "end_training")
  /\ Count(p, "end_training")
  /\ Goto(p, "done")
  /\ UNCHANGED <<opt, err, loc, hist, coll, gathered, saveDir, ckpt, logFile,
                 resultDir, images>>

\* ----------------------------------------------------------------- test()
\* "Test Result on {}, check point {}, testing data {}".format(...)
TestInfo == [kind |-> "test_info", session |-> Session, checkpoint |-> Weight,
             data |-> "VAL_DIR"]

\* "PSNR: {}, SSIM: {}, LPIPS: {}, UCIQUE: {}, UIQM: {}".format(...)
TestLogStats(L) ==
  [kind |-> "test_stats", PSNR |-> L.avg["PSNR"], SSIM |-> L.avg["SSIM"],
   LPIPS |-> L.avg["LPIPS"], UCIQUE |-> L.avg["UCIQE"], UIQM |-> L.avg["UIQM"]]

\* Config('config.yml'), seed_everything, Accelerator(), get_data,
\* DataLoader, Model()
TestInit(p) ==
  /\ At(p, "init") /\ opt.script = "test"
  /\ Goto(p, "load_checkpoint")
  /\ UNCHANGED <<opt, err, loc, calls, hist, coll, gathered, saveDir, ckpt,
                 logFile, resultDir, images>>

\* load_checkpoint(model, opt.TESTING.WEIGHT)
LoadCheckpoint(p) ==
  /\ At(p, "load_checkpoint")
  /\ SetLoc(p, [loc[p] EXCEPT !.params = Weight])
  /\ Goto(p, "prepare")
  /\ UNCHANGED <<opt, err, calls, hist, coll, gathered, saveDir, ckpt, logFile,
                 resultDir, images>>

\* accelerator.prepare(model, testloader); model.eval();
\* size = len(testloader); stat_psnr = ... = stat_uiqm = 0
TestPrepare(p) ==
  /\ At(p, "prepare") /\ opt.script = "test"
  /\ SetLoc(p, [StartPass(loc[p]) EXCEPT !.mode = "eval", !.vbatch = 0,
                    !.seen = NoneSeen,
                    !.size = PreparedLen(opt.valSamples, opt.nproc)])
  /\ Goto(p, "t_fetch")
  /\ UNCHANGED <<opt, err, calls, hist, coll, gathered, saveDir, ckpt, logFile,
                 resultDir, images>>

\* for _, test_data in enumerate(tqdm(testloader))
TestFetch(p) ==
  /\ At(p, "t_fetch")
  /\ IF loc[p].vbatch < loc[p].size
       THEN /\ SetLoc(p, [loc[p] EXCEPT
                 !.sample = Sample(loc[p].vbatch, p, opt.valSamples, opt.nproc),
                 !.vbatch = @ + 1])
            /\ Goto(p, "t_forward")
       ELSE /\ Goto(p, "t_average")
            /\ UNCHANGED loc
  /\ UNCHANGED <<opt, err, calls, hist, coll, gathered, saveDir, ckpt, logFile,
                 resultDir, images>>

\* with torch.no_grad(): res = model(inp)
TestForward(p) ==
  /\ At(p, "t_forward")
  /\ SetLoc(p, [loc[p] EXCEPT !.res = TestQuality(loc[p].sample),
                              !.fwdParams = @ \cup {loc[p].params}])
  /\ Count(p, "eval_forward")
  /\ Goto(p, "isdir")
  /\ UNCHANGED <<opt, err, hist, coll, gathered, saveDir, ckpt, logFile,
                 resultDir, images>>

\* if not os.path.isdir(opt.TESTING.RESULT_DIR)
IsDir(p) ==
  /\ At(p, "isdir")
  /\ SetLoc(p, [loc[p] EXCEPT !.sawDir = resultDir])
  /\ Goto(p, IF resultDir THEN "save_image" ELSE "t_makedirs")
  /\ UNCHANGED <<opt, err, calls, hist, coll, gathered, saveDir, ckpt, logFile,
                 resultDir, images>>

\* os.makedirs(opt.TESTING.RESULT_DIR): FileExistsError when another process
\* has created the directory since the isdir test
TestMakeDirs(p) ==
  /\ At(p, "t_makedirs")
  /\ IF resultDir
       THEN /\ err' = [err EXCEPT ![p] = "FileExistsError"]
            /\ Goto(p, "raised")
            /\ UNCHANGED resultDir
       ELSE /\ resultDir' = TRUE
            /\ Goto(p, "save_image")
            /\ UNCHANGED err
  /\ UNCHANGED <<opt, loc, calls, hist, coll, gathered, saveDir, ckpt, logFile,
                 images>>

ImagePathFixed(L) == FileName(1)

\* os.path.join(opt.TESTING.RESULT_DIR, test_data[2][0])
ImagePath(L) == FileName(L.sample)

\* torchvision.utils.save_image(res, os.path.join(RESULT_DIR, test_data[2][0]))
SaveImage(p) ==
  /\ At(p, "save_image")
  /\ resultDir
  /\ images' = images \cup {ImagePath(loc[p])}
  /\ Count(p, "save_image")
  /\ Goto(p, "t_measure")
  /\ UNCHANGED <<opt, err, loc, hist, coll, gathered, saveDir, ckpt, logFile,
                 resultDir>>

\* stat_psnr += ...; ...; stat_uiqm += ...
TestMeasure(p) ==
  /\ At(p, "t_measure")
  /\ SetLoc(p, [loc[p] EXCEPT !.acc = Accumulate(@, loc[p].res),
                              !.seen[loc[p].res] = @ + 1])
  /\ Goto(p, "t_fetch")
  /\ UNCHANGED <<opt, err, calls, hist, coll, gathered, saveDir, ckpt, logFile,
                 resultDir, images>>

\* stat_psnr /= size; ...; stat_uiqm /= size; test_info; log_stats; print
TestAverage(p) ==
  /\ At(p, "t_average")
  /\ IF loc[p].size = 0
       THEN /\ err' = [err EXCEPT ![p] = "ZeroDivisionError"]
            /\ Goto(p, "raised")
            /\ UNCHANGED <<loc, hist>>
       ELSE LET avg == Averaged(loc[p].acc, loc[p].size)
            IN /\ SetLoc(p, [loc[p] EXCEPT !.avg = avg])
               /\ hist' = [hist EXCEPT ![p] = Append2(@, "passes",
                    [epoch |-> 0, avg |-> avg, seen |-> loc[p].seen,
                     fwdParams |-> loc[p].fwdParams])]
               /\ Goto(p, "t_open")
               /\ UNCHANGED err
  /\ UNCHANGED <<opt, calls, coll, gathered, saveDir, ckpt, logFile, resultDir,
                 images>>

\* with open(os.path.join(LOG_DIR, LOG_FILE), mode='a', encoding='utf-8')
TestOpen(p) ==
  /\ At(p, "t_open")
  /\ Goto(p, "t_write1")
  /\ UNCHANGED <<opt, err, loc, calls, hist, coll, gathered, saveDir, ckpt,
                 logFile, resultDir, images>>

\* f.write(json.dumps(test_info) + '\n')
TestWrite1(p) ==
  /\ At(p, "t_write1")
  /\ LET line == JsonLine(TestInfo)
     IN /\ logFile' = Append(logFile, line)
        /\ hist' = [hist EXCEPT ![p] = Append2(@, "lines", line)]
  /\ Goto(p, "t_write2")
  /\ UNCHANGED <<opt, err, loc, calls, coll, gathered, saveDir, ckpt,
                 resultDir, images>>

\* f.write(json.dumps(log_stats) + '\n')
TestWrite2(p) ==
  /\ At(p, "t_write2")
  /\ LET line == JsonLine(TestLogStats(loc[p]))
     IN /\ logFile' = Append(logFile, line)
        /\ hist' = [hist EXCEPT ![p] = Append2(@, "lines", line)]
  /\ Goto(p, "done")
  /\ UNCHANGED <<opt, err, loc, calls, coll, gathered, saveDir, ckpt,
                 resultDir, images>>

\* ------------------------------------------------------------ exceptions
\* The statements of process p that call into the framework, the data
\* pipeline or the file system: each of them may raise.
RaiseSites(p) ==
  {"init", "prepare", "fetch", "zero_grad", "forward", "loss", "backward",
   "optimizer_step", "scheduler_step", "val_fetch",
   "eval_forward", "gather", "measure", "save_checkpoint",
   "save_write", "log", "end_training",
   "load_checkpoint", "t_fetch", "t_forward", "t_makedirs", "save_image",
   "t_measure", "t_open", "t_write1", "t_write2"}
  \cup (IF IsLocalMainProcess(p) THEN {"makedirs", "log_write"} ELSE {})

\* The exception caught and ignored: the process goes on where it was.
Swallow(p) == UNCHANGED pc

\* Nothing in train() or test() catches: the exception ends the process.
Propagate(p) == Goto(p, "raised")

Raise(p) ==
  /\ p \in Procs
  /\ pc[p] \in RaiseSites(p)
  /\ err' = [err EXCEPT ![p] = pc[p]]
  /\ Propagate(p)
  /\ UNCHANGED <<opt, loc, calls, hist, coll, gathered, saveDir, ckpt, logFile,
                 resultDir, images>>

\* -------------------------------------------------------- specifications
TrainStep(p) ==
  \/ TrainInit(p) \/ MakeSaveDir(p) \/ TrainPrepare(p) \/ EpochTop(p)
  \/ Fetch(p) \/ ZeroGrad(p) \/ Forward(p) \/ Loss(p) \/ Backward(p)
  \/ OptimizerStep(p) \/ SchedulerStep(p) \/ ValFetch(p)
  \/ EvalForward(p) \/ Gather(p) \/ Measure(p)
  \/ Average(p) \/ SaveCheckpoint(p) \/ SaveWrite(p) \/ AcceleratorLog(p)
  \/ LogWrite(p) \/ EndTraining(p)

TestStep(p) ==
  \/ TestInit(p) \/ LoadCheckpoint(p) \/ TestPrepare(p) \/ TestFetch(p)
  \/ TestForward(p) \/ IsDir(p) \/ TestMakeDirs(p) \/ SaveImage(p)
  \/ TestMeasure(p) \/ TestAverage(p) \/ TestOpen(p) \/ TestWrite1(p)
  \/ TestWrite2(p)

Next == \E p \in ProcIds : TrainStep(p) \/ TestStep(p) \/ Raise(p)

Spec == Init /\ [][Next]_vars

\* train() when no framework call raises, every process scheduled fairly
TrainNext == \E p \in ProcIds : TrainStep(p)

TrainInit0 == Init /\ opt.script = "train"

LiveSpec ==
  /\ TrainInit0
  /\ [][TrainNext]_vars
  /\ \A p \in ProcIds : WF_vars(TrainStep(p))

\* ================================================================ claims
RECURSIVE BagTotal(_, _, _)
\* The sum of metric m over the batches of a pass.
BagTotal(seen, m, Q) ==
  IF Q = {} THEN 0
  ELSE LET q == CHOOSE x \in Q : TRUE
       IN seen[q] * MetricValue(m, q) + BagTotal(seen, m, Q \ {q})

\* The pass of process p that belongs to epoch e (0: the pass of test()).
PassesOf(p, e) == {i \in DOMAIN hist[p].passes : hist[p].passes[i].epoch = e}

\* The metric values a log line carries, by metric.
LineMetric(text, m) ==
  IF m = "UCIQE" /\ text.kind = "test_stats" THEN text.UCIQUE ELSE text[m]

MetricLines(p) ==
  {i \in DOMAIN hist[p].lines :
     hist[p].lines[i].text.kind \in {"train", "test_stats"}}

LineEpoch(text) == IF text.kind = "train" THEN text.epoch ELSE 0

\* Every report of process p (an accelerator.log call, a metric line of the
\* log file) carries the averages of the pass it belongs to.
ReportsArePasses(p) ==
  /\ \A i \in DOMAIN hist[p].tracker :
       \E j \in PassesOf(p, hist[p].tracker[i].step) :
         hist[p].tracker[i].values = hist[p].passes[j].avg
  /\ \A i \in MetricLines(p) :
       \E j \in PassesOf(p, LineEpoch(hist[p].lines[i].text)) :
         \A m \in Metrics :
           LineMetric(hist[p].lines[i].text, m) = hist[p].passes[j].avg[m]

\* C1 as stated: every reported metric is the sum of the per-batch values of
\* its pass divided by the number of samples of the validation set, for any
\* number of processes.
C1_AveragedOverSamples ==
  \A p \in Procs :
    /\ ReportsArePasses(p)
    /\ \A i \in DOMAIN hist[p].passes : \A m \in Metrics :
         Eq(hist[p].passes[i].avg[m],
            Rat(BagTotal(hist[p].passes[i].seen, m, Quality), opt.valSamples))

\* C1, amended: every reported metric is the sum of the per-batch values
\* accumulated in its pass only, divided by len(testloader) as read after
\* accelerator.prepare, which is the number of batches the process iterates,
\* ceil(samples / processes), and not the number of samples when there are
\* several processes.
C1_AveragedOverLoaderLength ==
  \A p \in Procs :
    /\ ReportsArePasses(p)
    /\ \A i \in DOMAIN hist[p].passes : \A m \in Metrics :
         hist[p].passes[i].avg[m] =
           Rat(BagTotal(hist[p].passes[i].seen, m, Quality),
               PreparedLen(opt.valSamples, opt.nproc))

\* A two-process run over two samples has reported its second pass.
C1_Witness ==
  \E p \in Procs :
    /\ opt.script = "train" /\ opt.nproc = 2 /\ opt.valSamples = 2
    /\ Len(hist[p].tracker) = 2
    /\ hist[p].passes[2].seen # hist[p].passes[1].seen

\* ------------------------------------------------------------------- C2
Zero == Rat(0, 1)
Psnr(p, i) == hist[p].passes[i].avg["PSNR"]

\* Process p stands between two epochs, or after the last one.
AtEpochBoundary(p) == pc[p] \in {"epoch_top", "end_training", "done"}

\* The epochs whose validation PSNR beat 0 and every earlier validation PSNR.
RecordEpochs(p) ==
  {hist[p].passes[i].epoch : i \in
     {i \in DOMAIN hist[p].passes :
        /\ Gt(Psnr(p, i), Zero)
        /\ \A j \in 1..(i - 1) : Gt(Psnr(p, i), Psnr(p, j))}}

\* The first epoch whose validation PSNR is the greatest so far.
EarliestBest(p) ==
  LET best == {i \in DOMAIN hist[p].passes :
                 \A j \in DOMAIN hist[p].passes : ~Gt(Psnr(p, j), Psnr(p, i))}
      first == CHOOSE i \in best : \A j \in best : i <= j
  IN hist[p].passes[first].epoch

\* C2: between epochs, in every process, best_psnr is the maximum of 0 and
\* the averaged PSNR of the validation passes so far, best_epoch is the
\* earliest epoch that attained it (1 if none exceeded 0), and
\* save_checkpoint has been called exactly once, with the epoch and the
\* session, for each epoch whose PSNR was strictly greater than best_psnr
\* at that moment, and for no other epoch.
C2_BestAndCheckpoints ==
  \A p \in Procs : (opt.script = "train" /\ AtEpochBoundary(p)) =>
    LET P == hist[p].passes
        S == hist[p].saves
        beaten == \E i \in DOMAIN P : Gt(Psnr(p, i), Zero)
    IN /\ \A i \in DOMAIN P : ~Gt(Psnr(p, i), loc[p].best_psnr)
       /\ ~Gt(Zero, loc[p].best_psnr)
       /\ \/ loc[p].best_psnr = Zero
          \/ \E i \in DOMAIN P : loc[p].best_psnr = Psnr(p, i)
       /\ loc[p].best_epoch = IF beaten THEN EarliestBest(p) ELSE 1
       /\ {S[k].epoch : k \in DOMAIN S} = RecordEpochs(p)
       /\ Len(S) = Cardinality(RecordEpochs(p))
       /\ \A k \in DOMAIN S : S[k].session = Session

\* A second validation pass has tied the first, positive one: one checkpoint.
C2_Witness ==
  \E p \in Procs :
    /\ opt.script = "train" /\ AtEpochBoundary(p)
    /\ Len(hist[p].passes) = 2
    /\ Gt(Psnr(p, 1), Zero) /\ Eq(Psnr(p, 1), Psnr(p, 2))
    /\ Len(hist[p].saves) = 1 /\ loc[p].best_epoch = 1

\* ------------------------------------------------------------------- C3
TestSamples == 1..opt.valSamples
RECURSIVE SeenCount(_, _)
\* How many batches process p has added to its accumulators in this pass.
SeenCount(seen, Q) ==
  IF Q = {} THEN 0
  ELSE LET q == CHOOSE x \in Q : TRUE IN seen[q] + SeenCount(seen, Q \ {q})

TestDone == opt.script = "test" /\ \A p \in Procs : pc[p] = "done"

\* C3: when every process of the run has completed test(), every sample of
\* the test set has its image in RESULT_DIR under its own filename, and the
\* number of image files is the number of samples; no image is written
\* before the directory exists; every process makes one save_image call per
\* batch of its loader, before it adds that batch's metrics.
C3_ImagesWritten ==
  opt.script = "test" =>
    /\ images # {} => resultDir
    /\ TestDone =>
         /\ images = {FileName(s) : s \in TestSamples}
         /\ Cardinality(images) = opt.valSamples
    /\ \A p \in Procs : err[p] = "none" =>
         LET saved == calls[p]["save_image"]
             added == SeenCount(loc[p].seen, Quality)
         IN /\ saved = IF pc[p] \in {"t_forward", "isdir", "t_makedirs",
                                     "save_image"}
                         THEN loc[p].vbatch - 1 ELSE loc[p].vbatch
            /\ added = IF pc[p] = "t_measure" THEN saved - 1 ELSE saved
            /\ pc[p] = "t_measure" => FileName(loc[p].sample) \in images
            /\ pc[p] = "done" => saved = loc[p].size

\* Two processes have completed test() on two samples, and the one that made
\* the directory was not the only one to find it missing.
C3_Witness ==
  /\ TestDone /\ opt.nproc = 2 /\ opt.valSamples = 2
  /\ Cardinality(images) = 2
  /\ \E p \in Procs : ~loc[p].sawDir

\* ------------------------------------------------------------------- C4
\* The lines the run has appended to the log file, after what it held.
NewLines == SubSeq(logFile, 2, Len(logFile))

IsJsonLine(line) == line.json /\ line.newline
RecordsEpoch(text) == "epoch" \in DOMAIN text
RecordsMetrics(text) == Metrics \subseteq DOMAIN text

\* best_psnr and best_epoch as they are after the update of epoch e.
BestAfter(p, e, best_psnr, best_epoch) ==
  LET upTo == {i \in DOMAIN hist[p].passes : hist[p].passes[i].epoch <= e}
  IN /\ \A i \in upTo : ~Gt(Psnr(p, i), best_psnr)
     /\ \/ best_psnr = Zero /\ best_epoch = 1
        \/ \E i \in upTo : /\ best_psnr = Psnr(p, i)
                           /\ best_epoch = hist[p].passes[i].epoch

\* train(): the log file holds exactly one line per validation epoch the
\* main process has completed, in increasing epoch order, each with the
\* epoch, the metric values and the best PSNR / epoch as updated in it.
TrainLogLines ==
  opt.script = "train" =>
    /\ NewLines = hist[1].lines
    /\ \A i \in DOMAIN NewLines :
         /\ NewLines[i].text.kind = "train"
         /\ RecordsEpoch(NewLines[i].text) /\ RecordsMetrics(NewLines[i].text)
         /\ BestAfter(1, NewLines[i].text.epoch, NewLines[i].text.best_psnr,
                      NewLines[i].text.best_epoch)
         /\ \A j \in DOMAIN NewLines : i < j =>
              NewLines[i].text.epoch < NewLines[j].text.epoch
    /\ {NewLines[i].text.epoch : i \in DOMAIN NewLines} =
         {e \in 1..(loc[1].epoch - 1) : e % opt.VAL_AFTER_EVERY = 0}

\* test(): a process appends only once it has processed and averaged all its
\* batches.
TestLogLinesLate ==
  opt.script = "test" =>
    /\ Len(NewLines) >= Len(hist[1].lines)
    /\ \A i \in DOMAIN NewLines :
         \E p \in Procs : \E k \in DOMAIN hist[p].lines :
           NewLines[i] = hist[p].lines[k]
    /\ \A p \in Procs : hist[p].lines # <<>> =>
         /\ Len(hist[p].passes) = 1
         /\ loc[p].vbatch = loc[p].size
         /\ SeenCount(loc[p].seen, Quality) = loc[p].size

\* test(): the two lines of a process are a header naming session,
\* checkpoint and data, and a line with the five metric values; neither
\* records an epoch.
TestLogLineShapes ==
  opt.script = "test" =>
    \A p \in Procs :
      LET T == hist[p].lines
      IN /\ Len(T) <= 2
         /\ Len(T) >= 1 =>
              DOMAIN T[1].text = {"kind", "session", "checkpoint", "data"}
         /\ Len(T) = 2 =>
              DOMAIN T[2].text =
                {"kind", "PSNR", "SSIM", "LPIPS", "UCIQUE", "UIQM"}

\* The log file is opened in append mode: what it holds stays.
AppendOnly ==
  /\ Len(logFile') >= Len(logFile)
  /\ SubSeq(logFile', 1, Len(logFile)) = logFile

\* C4 as stated: every appended line is a JSON line that records an epoch and
\* the metric values; train() appends one per validation epoch, in order,
\* after the best update; test() appends only after all samples are
\* processed and averaged; nothing is truncated.
C4_EveryLineHasEpochAndMetrics ==
  /\ \A i \in DOMAIN NewLines :
       /\ IsJsonLine(NewLines[i])
       /\ RecordsEpoch(NewLines[i].text) /\ RecordsMetrics(NewLines[i].text)
  /\ TrainLogLines
  /\ TestLogLinesLate
  /\ logFile[1] = OldLine

\* C4, amended: every appended line is one JSON-encoded line; the lines of
\* train() record the epoch and the metric values, one line per validation
\* epoch, in increasing epoch order, after that epoch's best update; test()
\* appends, only after all its samples are processed and averaged, a header
\* line (session, checkpoint, data) and a line with the metric values,
\* neither of which records an epoch; existing content is never truncated.
C4_LogLines ==
  /\ [](/\ \A i \in DOMAIN NewLines : IsJsonLine(NewLines[i])
        /\ TrainLogLines
        /\ TestLogLinesLate
        /\ TestLogLineShapes
        /\ logFile[1] = OldLine)
  /\ [][AppendOnly]_vars

\* A two-process training run has logged two validation epochs.
C4_Witness ==
  /\ opt.script = "train" /\ opt.nproc = 2
  /\ Len(NewLines) = 2
  /\ \A p \in Procs : Len(hist[p].tracker) = 2

\* ------------------------------------------------------------------- C5
Failed(p) == err[p] # "none"

\* A process an exception has ended takes no further step.
FailedStays ==
  \A p \in Procs : Failed(p) =>
    /\ pc'[p] = pc[p] /\ err'[p] = err[p] /\ loc'[p] = loc[p]
    /\ calls'[p] = calls[p] /\ hist'[p] = hist[p] /\ coll'[p] = coll[p]

\* The step in which an exception is raised leaves what the run has written.
RaiseKeepsEffects ==
  (\E p \in Procs : ~Failed(p) /\ err'[p] # "none") =>
    UNCHANGED <<saveDir, ckpt, logFile, resultDir, images>>

\* The epochs process p has appended a log line for.
LoggedEpochs(p) ==
  {hist[p].lines[i].text.epoch : i \in DOMAIN hist[p].lines}

\* train(): a failed process has appended nothing for the epoch it failed in
\* and has not called end_training.
TrainFailure ==
  opt.script = "train" =>
    \A p \in Procs : Failed(p) =>
      /\ calls[p]["end_training"] = 0
      /\ loc[p].epoch \notin LoggedEpochs(p)

\* C5 as stated: an exception ends the process where it is raised, what was
\* written before stays, a failing train() appends no line for the failing
\* epoch and does not call end_training, a failing test() appends no log
\* line at all.
C5_NoLogLineAfterFailure ==
  /\ [](TrainFailure)
  /\ [](opt.script = "test" =>
          \A p \in Procs : Failed(p) => hist[p].lines = <<>>)
  /\ [][FailedStays /\ RaiseKeepsEffects]_vars

\* C5, amended: as stated, except that a test() whose second f.write raises
\* has already appended its first line (the test_info header); in every
\* other failure of test() no log line is appended.
C5_ExceptionsPropagate ==
  /\ [](TrainFailure)
  /\ [](opt.script = "test" =>
          \A p \in Procs : Failed(p) =>
            hist[p].lines = IF err[p] = "t_write2"
                              THEN <<JsonLine(TestInfo)>> ELSE <<>>)
  /\ [][FailedStays /\ RaiseKeepsEffects]_vars

\* The main training process has failed in accelerator.log of its second
\* epoch, after a checkpoint and a log line of the first, and the other
\* process has gone on.
C5_Witness ==
  /\ opt.script = "train" /\ opt.nproc = 2
  /\ Failed(1) /\ loc[1].epoch = 2 /\ err[1] = "log"
  /\ Len(hist[1].lines) = 1 /\ Len(hist[1].saves) = 1
  /\ pc[2] = "end_training"

\* ------------------------------------------------------------------- C6
\* The optimizer steps process p has taken when it is in batch b of epoch e.
StepsBefore(e, b) == (e - 1) * opt.trainBatches + b

\* Where process p stands, or stood when it failed.
Site(p) == IF Failed(p) THEN err[p] ELSE pc[p]

\* Process p is in the validation of its epoch.
InValidation(p) ==
  loc[p].mode = "eval" /\ Site(p) \notin {"epoch_top", "end_training", "done"}

\* The counts of the five steps of a batch, by where the process stands.
BatchOrder(p) ==
  LET c == calls[p]
      site == Site(p)
      done == c["optimizer_step"]
      ahead(n) == IF n THEN done + 1 ELSE done
  IN /\ c["zero_grad"] = ahead(site \in {"forward", "loss", "backward",
                                          "optimizer_step"})
     /\ c["forward"] = ahead(site \in {"loss", "backward", "optimizer_step"})
     /\ c["loss"] = ahead(site \in {"backward", "optimizer_step"})
     /\ c["backward"] = ahead(site \in {"optimizer_step"})
     /\ loc[p].grads = IF site \in {"forward", "loss", "backward"} THEN 0
                       ELSE IF done = 0 /\ c["backward"] = 0 THEN 0 ELSE 1

\* An optimizer step is taken on the gradients of exactly one backward pass.
OneBackwardPerStep ==
  \A p \in Procs :
    calls'[p]["optimizer_step"] # calls[p]["optimizer_step"] =>
      /\ calls'[p]["optimizer_step"] = calls[p]["optimizer_step"] + 1
      /\ loc[p].grads = 1
      /\ calls[p]["backward"] = calls'[p]["optimizer_step"]

\* scheduler.step follows the last optimizer step of the epoch.
SchedulerAfterLastBatch ==
  \A p \in Procs :
    calls'[p]["scheduler_step"] # calls[p]["scheduler_step"] =>
      /\ calls'[p]["scheduler_step"] = loc[p].epoch
      /\ calls[p]["scheduler_step"] = loc[p].epoch - 1
      /\ calls[p]["optimizer_step"] = loc[p].epoch * opt.trainBatches
      /\ loc[p].valEpochs \cap {loc[p].epoch} = {}

\* C6: in every process of train(), the steps of every batch occur in the
\* order zero_grad, forward, loss, backward, optimizer.step, one optimizer
\* step per batch on the gradients of that batch alone; scheduler.step is
\* called once per epoch, after the last optimizer step of the epoch and
\* before its validation, so that after e completed epochs it has stepped
\* e times.
C6_StepOrder ==
  /\ [](opt.script = "train" =>
          \A p \in Procs :
            /\ BatchOrder(p)
            /\ AtEpochBoundary(p) =>
                 /\ calls[p]["scheduler_step"] = loc[p].epoch - 1
                 /\ calls[p]["optimizer_step"] = StepsBefore(loc[p].epoch, 0)
            /\ InValidation(p) =>
                 /\ calls[p]["scheduler_step"] = loc[p].epoch
                 /\ calls[p]["optimizer_step"] = StepsBefore(loc[p].epoch + 1, 0))
  /\ [][OneBackwardPerStep /\ SchedulerAfterLastBatch]_vars

\* A process is in the second batch of its second epoch, about to step.
C6_Witness ==
  \E p \in Procs :
    /\ pc[p] = "optimizer_step" /\ loc[p].epoch = 2 /\ loc[p].batch = 2
    /\ calls[p]["scheduler_step"] = 1 /\ loc[p].grads = 1

\* ------------------------------------------------------------------- C7
\* The epochs among the first n whose number VAL_AFTER_EVERY divides.
DueEpochs(n) == {e \in 1..n : e % opt.VAL_AFTER_EVERY = 0}

\* The epochs process p has a validation average, a checkpoint save, an
\* accelerator.log call or a log line for.
EpochsOf(p) ==
  [passes |-> {hist[p].passes[i].epoch : i \in DOMAIN hist[p].passes},
   saves |-> {hist[p].saves[i].epoch : i \in DOMAIN hist[p].saves},
   tracker |-> {hist[p].tracker[i].step : i \in DOMAIN hist[p].tracker},
   lines |-> LoggedEpochs(p)]

\* Process p has returned from train().
Finished(p) == pc[p] = "done"

\* C7: train() validates in exactly the epochs e of 1..NUM_EPOCHS with
\* e % VAL_AFTER_EVERY = 0, after the training batches and the scheduler
\* step of the epoch; checkpoint saves, accelerator.log calls and log lines
\* occur only in those epochs, and with VAL_AFTER_EVERY > NUM_EPOCHS the run
\* finishes with no validation, no checkpoint and no log line.
C7_ValidationEpochs ==
  opt.script = "train" =>
    /\ \A p \in Procs :
         /\ calls[p]["scheduler_step"] <= opt.NUM_EPOCHS
         /\ loc[p].valEpochs = DueEpochs(calls[p]["scheduler_step"])
         /\ \A f \in DOMAIN EpochsOf(p) : EpochsOf(p)[f] \subseteq loc[p].valEpochs
         /\ (loc[p].fwdParams # {} \/ calls[p]["eval_forward"] > 0) =>
               loc[p].valEpochs # {}
         /\ InValidation(p) =>
              /\ loc[p].epoch \in loc[p].valEpochs
              /\ calls[p]["scheduler_step"] = loc[p].epoch
              /\ calls[p]["optimizer_step"] = StepsBefore(loc[p].epoch + 1, 0)
         /\ Finished(p) =>
              /\ loc[p].valEpochs = DueEpochs(opt.NUM_EPOCHS)
              /\ (opt.valSamples > 0 => EpochsOf(p).tracker = loc[p].valEpochs)
    /\ Finished(1) /\ opt.valSamples > 0 => LoggedEpochs(1) = loc[1].valEpochs
    /\ opt.VAL_AFTER_EVERY > opt.NUM_EPOCHS =>
         /\ NewLines = <<>>
         /\ \A p \in Procs : /\ hist[p] = InitHist
                             /\ calls[p]["eval_forward"] = 0
                             /\ loc[p].mode = "train"

\* A run of two epochs that validates every second epoch has finished: it
\* has skipped the first epoch and validated, saved and logged in the second.
C7_Witness ==
  /\ opt.script = "train" /\ opt.NUM_EPOCHS = 2 /\ opt.VAL_AFTER_EVERY = 2
  /\ \A p \in Procs : Finished(p)
  /\ LoggedEpochs(1) = {2} /\ EpochsOf(1).saves = {2}
  /\ EpochsOf(1).tracker = {2}

\* ------------------------------------------------------------------- C8
\* The validation passes two processes have both completed gave them the
\* same averages, and at the same epoch boundary they hold the same best.
SameBest ==
  \A p, q \in Procs :
    /\ \A i \in DOMAIN hist[p].passes \cap DOMAIN hist[q].passes :
         /\ hist[p].passes[i].epoch = hist[q].passes[i].epoch
         /\ hist[p].passes[i].avg = hist[q].passes[i].avg
    /\ Len(hist[p].passes) = Len(hist[q].passes) =>
         /\ loc[p].best_psnr = loc[q].best_psnr
         /\ loc[p].best_epoch = loc[q].best_epoch
         /\ RecordEpochs(p) = RecordEpochs(q)

\* Only the local main process creates the save directory and appends to the
\* log file; every process calls save_checkpoint for its record epochs.
GuardedByMain ==
  /\ saveDir \subseteq {1}
  /\ \A p \in Procs : ~IsLocalMainProcess(p) => p \notin saveDir
  /\ NewLines = hist[1].lines
  /\ \A p \in Procs \ {1} : hist[p].lines = <<>>
  /\ \A p \in Procs :
       \A i \in DOMAIN hist[p].saves :
         hist[p].saves[i].epoch \in RecordEpochs(p)

\* The processes that are inside save_checkpoint writing file k.
Writers(k) ==
  {p \in Procs :
     /\ pc[p] = "save_write"
     /\ LET call == hist[p].saves[Len(hist[p].saves)]
        IN CkptKey(call.epoch, call.session) = k}

\* No two processes are writing the same checkpoint file at the same time.
OneWriter == \A k \in DOMAIN ckpt : Cardinality(Writers(k)) <= 1

\* The processes agree on the best PSNR and epoch, and only the local main
\* process creates the save directory and appends to the log file.
AgreeAndGuarded == opt.script = "train" => SameBest /\ GuardedByMain

\* C8: in a multi-process run of train() all processes hold the same
\* best_psnr and best_epoch after every validation pass and take the same
\* checkpoint decision; the save directory and the log file are touched by
\* the local main process only, save_checkpoint is called unguarded, and no
\* two processes write the checkpoint file of one epoch at the same time.
C8_NoConcurrentCheckpointWrite ==
  opt.script = "train" => SameBest /\ GuardedByMain /\ OneWriter

\* ------------------------------------------------------------------- C9
TrainingCalls == {"zero_grad", "forward", "loss", "backward",
                  "optimizer_step", "scheduler_step"}

\* The parameters, gradients and the counts of training calls of process p.
TrainingState(p) ==
  [params |-> loc[p].params, grads |-> loc[p].grads,
   calls |-> [c \in TrainingCalls |-> calls[p][c]]]

\* A step taken while the model of p is in eval mode leaves its parameters,
\* optimizer and scheduler as they are.
EvalKeepsState ==
  \A p \in Procs :
    loc[p].mode = "eval" => TrainingState(p)' = TrainingState(p)

\* The parameters after the training batches of e epochs.
ParamsAfter(e) == [from |-> "init", steps |-> StepsBefore(e + 1, 0)]

\* Every validation pass of p ran on the parameters its epoch's training
\* left; a checkpoint of the epoch holds them, and so does the file written.
SavedIsValidated(p) ==
  /\ loc[p].mode = "eval" => loc[p].fwdParams \subseteq {loc[p].params}
  /\ \A i \in DOMAIN hist[p].passes :
       hist[p].passes[i].fwdParams \subseteq {ParamsAfter(hist[p].passes[i].epoch)}
  /\ \A i \in DOMAIN hist[p].saves :
       LET call == hist[p].saves[i]
       IN /\ call.state_dict = ParamsAfter(call.epoch)
          /\ \E j \in PassesOf(p, call.epoch) :
               /\ hist[p].passes[j].fwdParams = {call.state_dict}
               /\ Gt(hist[p].passes[j].avg["PSNR"], Zero)

\* test() evaluates the parameters load_checkpoint loaded, and trains nothing.
TestedIsLoaded(p) ==
  /\ loc[p].fwdParams \subseteq {Weight}
  /\ calls[p]["eval_forward"] > 0 => loc[p].fwdParams = {Weight}
  /\ \A c \in TrainingCalls : calls[p][c] = 0
  /\ loc[p].grads = 0
  /\ pc[p] \notin {"init", "load_checkpoint"} /\ ~Failed(p) =>
       loc[p].params = Weight

\* C9: a validation pass of train() and the whole of test() leave the
\* parameters, the optimizer and the scheduler unchanged; the state_dict
\* save_checkpoint writes in an epoch is the parameter state that produced
\* the PSNR of that epoch, and test() evaluates exactly the parameters
\* loaded from TESTING.WEIGHT.
C9_EvalLeavesParameters ==
  /\ [](\A p \in Procs :
          IF opt.script = "train" THEN SavedIsValidated(p)
                                  ELSE TestedIsLoaded(p))
  /\ [][EvalKeepsState]_vars

\* A process is about to write the checkpoint of its second epoch, after
\* validating on two batches with the parameters of four optimizer steps.
C9_Witness ==
  \E p \in Procs :
    /\ pc[p] = "save_write" /\ loc[p].epoch = 2
    /\ loc[p].params.steps = 4 /\ loc[p].vbatch = 2
    /\ calls[p]["eval_forward"] >= 2

\* ------------------------------------------------------------------ C10
\* Process p has left train(), by returning or by an exception.
Ended(p) == Finished(p) \/ Failed(p)

\* No validation pass of the run divides by a loader length of 0.
NoEmptyValidation == opt.valSamples > 0 \/ DueEpochs(opt.NUM_EPOCHS) = {}

\* What a process that has returned from train() has done: NUM_EPOCHS epochs,
\* each over the whole training loader, and then end_training, once.
RanAllEpochs(p) ==
  /\ loc[p].epoch = IF opt.NUM_EPOCHS < 1 THEN 1 ELSE opt.NUM_EPOCHS + 1
  /\ calls[p]["scheduler_step"] = opt.NUM_EPOCHS
  /\ \A c \in TrainingCalls \ {"scheduler_step"} :
       calls[p][c] = opt.NUM_EPOCHS * opt.trainBatches
  /\ calls[p]["end_training"] = 1

\* Epochs come in increasing order, one at a time, each after the whole
\* training loader; end_training is the last step of a process.
EpochsInOrder ==
  \A p \in Procs :
    /\ loc'[p].epoch \in {loc[p].epoch, loc[p].epoch + 1}
    /\ calls'[p]["scheduler_step"] # calls[p]["scheduler_step"] =>
         /\ calls'[p]["scheduler_step"] = loc[p].epoch
         /\ loc[p].batch = opt.trainBatches
         /\ calls[p]["forward"] = loc[p].epoch * opt.trainBatches
    /\ calls'[p]["end_training"] # calls[p]["end_training"] =>
         /\ calls[p]["end_training"] = 0
         /\ calls[p]["scheduler_step"] = opt.NUM_EPOCHS
         /\ Finished(p)'
    /\ Ended(p) => pc'[p] = pc[p] /\ calls'[p] = calls[p] /\ loc'[p] = loc[p]

\* The failure of a process when no framework call raises: the division by
\* the length 0 of the validation loader, in the first validation epoch.
DividesByZero(p) ==
  /\ err[p] = "ZeroDivisionError" /\ opt.valSamples = 0
  /\ loc[p].epoch = opt.VAL_AFTER_EVERY
  /\ calls[p]["scheduler_step"] = loc[p].epoch
  /\ calls[p]["end_training"] = 0
  /\ hist[p] = InitHist

====
